---- MODULE Spec2Model ----
(***************************************************************************)
(* Model of the anime watch-log parser: the parsing context               *)
(* (src/src/parsing.rs, ParsingContext), the watch-session recognizer     *)
(* (WatchLineParser::parse), the title recognizer                         *)
(* (TitleLineParser::parse), the value parsers they call                  *)
(* (src/src/elements.rs, Episode::from and Company::from_str) and the     *)
(* store of shows and entries (src/src/database.rs, SimpleDatabase).      *)
(*                                                                         *)
(* Dates are day numbers (NaiveDate::succ is +1), times of day are        *)
(* <<hour, minute>> pairs, texts are sequences of one-character strings.  *)
(***************************************************************************)
EXTENDS Integers, Sequences, FiniteSets, TLC

VARIABLES context, last, log, anime_map

vars == <<context, last, log, anime_map>>

(***************************************************************************)
(* Bounds                                                                  *)
(***************************************************************************)
\* dates offered to notify_new_current_date are 0..MaxDay; no call is taken
\* that would move the context's date past MaxDay
MaxDay == 3
\* show ids handed to notify_new_current_anime are 0..MaxAnime-1
MaxAnime == 2

\* Option<T>: None is the empty sequence, Some(x) the one-element sequence
None == <<>>
Some(x) == <<x>>
\* a piece of a line that is not written
NoTok == <<>>

Dates == 0..MaxDay
AnimeIDs == 0..(MaxAnime - 1)

(***************************************************************************)
(* Texts                                                                   *)
(***************************************************************************)
Digits == {"0", "1", "2", "3", "4", "5", "6", "7", "8", "9"}

DigitVal == [c \in Digits |->
               CASE c = "0" -> 0 [] c = "1" -> 1 [] c = "2" -> 2 [] c = "3" -> 3
                 [] c = "4" -> 4 [] c = "5" -> 5 [] c = "6" -> 6 [] c = "7" -> 7
                 [] c = "8" -> 8 [] c = "9" -> 9]

Whitespace == {" ", "\t", "\n"}

Ok(v) == [kind |-> "Ok", val |-> v]
Err(m) == [kind |-> "Err", msg |-> m]

\* the range of i32 (Episode.number)
I32Max == 2147483647
I32Min == (0 - I32Max) - 1

\* the digits of i32::from_str taken left to right into the running value:
\* checked_mul(10), then checked_add of the digit (checked_sub for a text
\* with `-'); a step that leaves the range of i32 fails the parse
RECURSIVE CheckedValue(_, _, _)
CheckedValue(body, acc, negative) ==
  IF body = <<>> THEN Ok(acc)
  ELSE IF negative
  THEN IF acc < (I32Min + DigitVal[body[1]] + 9) \div 10
       THEN Err("number too small to fit in target type")
       ELSE CheckedValue(Tail(body), 10 * acc - DigitVal[body[1]], TRUE)
  ELSE IF acc > (I32Max - DigitVal[body[1]]) \div 10
       THEN Err("number too large to fit in target type")
       ELSE CheckedValue(Tail(body), 10 * acc + DigitVal[body[1]], FALSE)

\* mutant: the number is parsed as an unsigned one, so `-' is no sign
Episode_from_Unsigned(ep_str) ==
  IF ep_str = <<>> THEN Err("Invalid episode number")
  ELSE LET body == IF ep_str[1] = "+" THEN Tail(ep_str) ELSE ep_str
       IN IF body = <<>> \/ \E i \in 1..Len(body) : body[i] \notin Digits
          THEN Err("Invalid episode number")
          ELSE LET n == CheckedValue(body, 0, FALSE)
               IN IF n.kind = "Err" THEN Err("Invalid episode number")
                  ELSE Ok([number |-> n.val])

\* elements.rs Episode::from: ep_str.parse::<i32>(), which takes one
\* leading `+' or `-' and then one or more ASCII digits
Episode_from(ep_str) ==
  IF ep_str = <<>> THEN Err("Invalid episode number")
  ELSE LET signed == ep_str[1] \in {"+", "-"}
           body == IF signed THEN Tail(ep_str) ELSE ep_str
       IN IF body = <<>> \/ \E i \in 1..Len(body) : body[i] \notin Digits
          THEN Err("Invalid episode number")
          ELSE LET n == CheckedValue(body, 0, ep_str[1] = "-")
               IN IF n.kind = "Err" THEN Err("Invalid episode number")
                  ELSE Ok([number |-> n.val])

RECURSIVE TrimStart(_)
TrimStart(s) ==
  IF s /= <<>> /\ s[1] \in Whitespace THEN TrimStart(Tail(s)) ELSE s

RECURSIVE TrimEnd(_)
TrimEnd(s) ==
  IF s /= <<>> /\ s[Len(s)] \in Whitespace
  THEN TrimEnd(SubSeq(s, 1, Len(s) - 1)) ELSE s

Trim(s) == TrimEnd(TrimStart(s))

\* str::split(','): the pieces between the commas, empty pieces included
RECURSIVE SplitComma(_, _)
SplitComma(s, piece) ==
  IF s = <<>> THEN <<piece>>
  ELSE IF s[1] = "," THEN <<piece>> \o SplitComma(Tail(s), <<>>)
  ELSE SplitComma(Tail(s), Append(piece, s[1]))

RECURSIVE FilterNonBlank(_)
FilterNonBlank(pieces) ==
  IF pieces = <<>> THEN <<>>
  ELSE IF Trim(pieces[1]) = <<>> THEN FilterNonBlank(Tail(pieces))
  ELSE <<pieces[1]>> \o FilterNonBlank(Tail(pieces))

\* the regex ^\{(.*)\}$ of Company::from_str ('.' matches no line feed)
CompanyRegex(s) ==
  /\ Len(s) >= 2
  /\ s[1] = "{"
  /\ s[Len(s)] = "}"
  /\ \A i \in 2..(Len(s) - 1) : s[i] /= "\n"

\* elements.rs Company::from_str
Company_from_str(company_str) ==
  IF ~CompanyRegex(company_str)
  THEN Err("String does not match company format")
  ELSE LET inner == Trim(SubSeq(company_str, 2, Len(company_str) - 1))
       IN IF Trim(inner) = <<>> THEN Ok([names |-> <<>>])
          ELSE Ok([names |-> FilterNonBlank(SplitComma(inner, <<>>))])

(***************************************************************************)
(* Times and timestamps                                                    *)
(***************************************************************************)
\* NaiveTime::parse_from_str(text, "%H:%M") on a two-digit:two-digit text
NaiveTime_parse(t) ==
  IF t[1] <= 23 /\ t[2] <= 59 THEN Ok(t) ELSE Err("Invalid time")

\* NaiveTime's ordering: seconds since midnight
TimeOfDay(t) == t[1] * 60 + t[2]

and_time(date, time) == [date |-> date, time |-> time]

\* NaiveDateTime's ordering
DateTimeLeq(a, b) ==
  \/ a.date < b.date
  \/ a.date = b.date /\ TimeOfDay(a.time) <= TimeOfDay(b.time)

\* elements.rs WatchEntry::new
WatchEntry_new(anime_id, start_time, end_time, episode, company) ==
  [anime_id |-> anime_id, start_time |-> start_time, end_time |-> end_time,
   episode |-> episode, company |-> company]

(***************************************************************************)
(* ParsingContext                                                          *)
(***************************************************************************)
ParsingContext_new ==
  [current_date |-> None, current_anime |-> None,
   last_watch_entry |-> None, last_company |-> None]

\* every context operation yields the context it leaves and what it returns
Outcome(ctx, res) == [ctx |-> ctx, res |-> res]

Panic(m) == [kind |-> "Panic", msg |-> m]

\* mutant: the comparison lets the same date through
notify_new_current_date_AllowsEqual(c, date) ==
  IF c.current_date /= None /\ c.current_date[1] > date
  THEN Outcome(c, Err("Current date is earlier or equal than previous date"))
  ELSE Outcome([c EXCEPT !.current_date = Some(date),
                         !.current_anime = None,
                         !.last_watch_entry = None], Ok(<<>>))

\* mutant: any date is taken, earlier ones too
notify_new_current_date_NoCheck(c, date) ==
  Outcome([c EXCEPT !.current_date = Some(date),
                    !.current_anime = None,
                    !.last_watch_entry = None], Ok(<<>>))

\* mutant: the previous entry survives a new date
notify_new_current_date_KeepsEntry(c, date) ==
  IF c.current_date /= None /\ c.current_date[1] >= date
  THEN Outcome(c, Err("Current date is earlier or equal than previous date"))
  ELSE Outcome([c EXCEPT !.current_date = Some(date),
                         !.current_anime = None], Ok(<<>>))

notify_new_current_date(c, date) ==
  IF c.current_date /= None /\ c.current_date[1] >= date
  THEN Outcome(c, Err("Current date is earlier or equal than previous date"))
  ELSE Outcome([c EXCEPT !.current_date = Some(date),
                         !.current_anime = None,
                         !.last_watch_entry = None], Ok(<<>>))

\* mutant: the previous entry survives a show selection
notify_new_current_anime_KeepsEntry(c, anime_id) ==
  Outcome([c EXCEPT !.current_anime = Some(anime_id)], Ok(<<>>))

notify_new_current_anime(c, anime_id) ==
  Outcome([c EXCEPT !.current_anime = Some(anime_id),
                    !.last_watch_entry = None], Ok(<<>>))

\* mutant: an entry already remembered is not replaced
notify_new_watch_entry_KeepsOld(c, entry) ==
  IF c.last_watch_entry /= None
  THEN IF c.last_watch_entry[1].anime_id /= entry.anime_id
       THEN Outcome(c, Panic("Anime ID mismatch"))
       ELSE Outcome(c, Ok(<<>>))
  ELSE Outcome([c EXCEPT !.last_watch_entry = Some(entry)], Ok(<<>>))

notify_new_watch_entry(c, entry) ==
  IF c.last_watch_entry /= None
     /\ c.last_watch_entry[1].anime_id /= entry.anime_id
  THEN Outcome(c, Panic("Anime ID mismatch"))
  ELSE Outcome([c EXCEPT !.last_watch_entry = Some(entry)], Ok(<<>>))

notify_new_company(c, company) ==
  Outcome([c EXCEPT !.last_company = company], Ok(<<>>))

(***************************************************************************)
(* Session lines                                                           *)
(*                                                                         *)
(* A line is the four pieces the session pattern captures: the start time  *)
(* (two digits, colon, two digits), and the optional end time, episode     *)
(* token and company group.                                                *)
(***************************************************************************)
\* capture group 3: [0-9][0-9.]{1,} or the placeholder --
EpisodeRegex(tok) ==
  \/ tok = <<"-", "-">>
  \/ /\ Len(tok) >= 2
     /\ tok[1] \in Digits
     /\ \A i \in 2..Len(tok) : tok[i] \in Digits \cup {"."}

\* capture group 4: \{.*\}
GroupRegex(tok) ==
  /\ Len(tok) >= 2
  /\ tok[1] = "{"
  /\ tok[Len(tok)] = "}"
  /\ \A i \in 2..(Len(tok) - 1) : tok[i] /= "\n"

\* the whole pattern matches when every written piece fits its group
WatchRegex(line) ==
  /\ line.episode = NoTok \/ EpisodeRegex(line.episode)
  /\ line.company = NoTok \/ GroupRegex(line.company)

\* mutant: the show is not selected again after the date has moved
AdvanceContext_NoReselect(c, date, anime_id) ==
  notify_new_current_date(c, date)

\* lines 139-140 and 152-153: set the new date, then re-select the show
AdvanceContext(c, date, anime_id) ==
  LET d == notify_new_current_date(c, date)
  IN IF d.res.kind /= "Ok" THEN d
     ELSE notify_new_current_anime(d.ctx, anime_id)

Resolved(c, start_date, end_date, current_date, res) ==
  [ctx |-> c, start_date |-> start_date, end_date |-> end_date,
   current_date |-> current_date, res |-> res]

\* mutant: a session starting exactly when the previous one ended is moved
\* to the next day as well
MidnightLast_NotStrict(r, start_time, anime_id) ==
  IF r.ctx.last_watch_entry /= None
     /\ TimeOfDay(r.ctx.last_watch_entry[1].end_time.time)
          >= TimeOfDay(start_time)
  THEN IF r.ctx.last_watch_entry[1].anime_id /= anime_id
       THEN [r EXCEPT !.res = Panic("Anime ID mismatch")]
       ELSE LET a == AdvanceContext(r.ctx, r.current_date + 1, anime_id)
            IN Resolved(a.ctx, r.current_date + 1, r.current_date + 1,
                        r.current_date + 1, a.res)
  ELSE r

\* mutant: the previous entry is never looked at
MidnightLast_Skipped(r, start_time, anime_id) == r

\* "Start after midnight with previous watch entry on yesterday"
MidnightLast(r, start_time, anime_id) ==
  IF r.ctx.last_watch_entry /= None
     /\ TimeOfDay(r.ctx.last_watch_entry[1].end_time.time)
          > TimeOfDay(start_time)
  THEN IF r.ctx.last_watch_entry[1].anime_id /= anime_id
       THEN [r EXCEPT !.res = Panic("Anime ID mismatch")]
       ELSE LET a == AdvanceContext(r.ctx, r.current_date + 1, anime_id)
            IN Resolved(a.ctx, r.current_date + 1, r.current_date + 1,
                        r.current_date + 1, a.res)
  ELSE r

\* mutant: the start of a midnight-crossing session moves to the next day too
MidnightTraverse_StartMoves(r, start_time, end_time, anime_id) ==
  IF r.res.kind = "Ok" /\ TimeOfDay(end_time) < TimeOfDay(start_time)
  THEN LET a == AdvanceContext(r.ctx, r.current_date + 1, anime_id)
       IN Resolved(a.ctx, r.current_date + 1, r.current_date + 1,
                   r.current_date + 1, a.res)
  ELSE r

\* "Start before midnight and end after midnight"
MidnightTraverse(r, start_time, end_time, anime_id) ==
  IF r.res.kind = "Ok" /\ TimeOfDay(end_time) < TimeOfDay(start_time)
  THEN LET a == AdvanceContext(r.ctx, r.current_date + 1, anime_id)
       IN Resolved(a.ctx, r.current_date, r.current_date + 1,
                   r.current_date + 1, a.res)
  ELSE r

\* lines 162-183: build the entry, record it in the context, return it
BuildEntry(r, current_anime, start_time, end_time, line) ==
  LET episode == Episode_from(line.episode)
      company == IF line.company = NoTok THEN Ok(None)
                 ELSE LET parsed == Company_from_str(line.company)
                      IN IF parsed.kind = "Err" THEN parsed
                         ELSE Ok(Some(parsed.val))
  IN IF episode.kind = "Err" THEN Outcome(r.ctx, Err("Invalid episode"))
     ELSE IF company.kind = "Err" THEN Outcome(r.ctx, company)
     ELSE LET watch_entry ==
                WatchEntry_new(current_anime,
                               and_time(r.start_date, start_time),
                               and_time(r.end_date, end_time),
                               episode.val, company.val)
              n == notify_new_watch_entry(r.ctx, watch_entry)
          IN IF n.res.kind /= "Ok" THEN n
             ELSE Outcome(n.ctx, Ok(watch_entry))

\* lines 160-183, reached with the dates resolved
Finish(r, current_anime, start_time, end_time, line) ==
  IF r.res.kind /= "Ok" THEN Outcome(r.ctx, r.res)
  ELSE BuildEntry(r, current_anime, start_time, end_time, line)

\* the value of a one-element set
Only(S) == CHOOSE x \in S : TRUE

\* mutant: only the date is required up front
CheckContext_DateOnly(c) ==
  IF c.current_date = None THEN Err("No current date!")
  ELSE Ok(<<>>)

\* lines 108-109: both must be set before anything else is looked at
CheckContext(c) ==
  IF c.current_date = None THEN Err("No current date!")
  ELSE IF c.current_anime = None THEN Err("No current anime!")
  ELSE Ok(<<>>)

\* lines 111-116: the pattern and its required groups
Captures(line) ==
  IF ~WatchRegex(line) THEN Err("Line doesn't match regex")
  ELSE IF line.end = NoTok THEN Err("No end time!")
  ELSE IF line.episode = NoTok THEN Err("No episode number!")
  ELSE Ok(<<>>)

\* lines 120-121
ParseTimes(line) ==
  IF NaiveTime_parse(line.start).kind = "Err" THEN Err("Invalid start time")
  ELSE IF NaiveTime_parse(line.end).kind = "Err" THEN Err("Invalid end time")
  ELSE Ok([start_time |-> NaiveTime_parse(line.start).val,
           end_time |-> NaiveTime_parse(line.end).val])

\* lines 126-183, with the context checked and the times parsed
ResolveAndBuild(c, line, start_time, end_time) ==
  IF c.current_anime = None
  THEN Outcome(c, Err("No current anime in context!"))
  ELSE LET anime_id == c.current_anime[1]
           r0 == Resolved(c, c.current_date[1], c.current_date[1],
                          c.current_date[1], Ok(<<>>))
       IN Only({Finish(r2, anime_id, start_time, end_time, line) :
                  r2 \in {MidnightTraverse(r1, start_time, end_time, anime_id) :
                    r1 \in {MidnightLast(r0, start_time, anime_id)}}})

WatchLineParser_parse(c, line) ==
  IF CheckContext(c).kind = "Err" THEN Outcome(c, CheckContext(c))
  ELSE IF Captures(line).kind = "Err" THEN Outcome(c, Captures(line))
  ELSE IF ParseTimes(line).kind = "Err" THEN Outcome(c, ParseTimes(line))
  ELSE ResolveAndBuild(c, line, ParseTimes(line).val.start_time,
                       ParseTimes(line).val.end_time)

(***************************************************************************)
(* Title lines: white space, the title (an alphanumeric character, then    *)
(* anything but brackets and braces), a colon, white space and an optional *)
(* comment to the end of the line.                                         *)
(***************************************************************************)
\* [a-zA-Z0-9], of which the letters the title texts below are made of
Alphanumeric == Digits \cup {"a", "b", "A", "B"}

Brackets == {"[", "]", "{", "}"}

\* after the colon: white space, then nothing or a comment (two slashes and
\* anything but a line feed) to the end of the text
TitleTail(rest) ==
  LET comment == TrimStart(rest)
  IN \/ comment = <<>>
     \/ /\ Len(comment) >= 2
        /\ comment[1] = "/"
        /\ comment[2] = "/"
        /\ \A i \in 3..Len(comment) : comment[i] /= "\n"

\* the colons of the text that can close capture group 1: nothing but
\* bracket-free characters before them, a tail the pattern accepts after
TitleEnds(text) ==
  {p \in 2..Len(text) :
     /\ text[p] = ":"
     /\ \A i \in 2..(p - 1) : text[i] \notin Brackets
     /\ TitleTail(SubSeq(text, p + 1, Len(text)))}

\* parsing.rs TitleLineParser::parse: the group is greedy, so it runs to the
\* last colon that can close it
TitleLineParser_parse(line) ==
  LET text == TrimStart(line)
  IN IF text = <<>> \/ text[1] \notin Alphanumeric \/ TitleEnds(text) = {}
     THEN Err("Line doesn't match regex")
     ELSE Ok(SubSeq(text, 1,
                    (CHOOSE p \in TitleEnds(text) :
                       \A q \in TitleEnds(text) : p >= q) - 1))

(***************************************************************************)
(* Inputs                                                                  *)
(***************************************************************************)
\* written times of day, and a written time that is no time of day
LineTimes == {<<0, 0>>, <<2, 10>>, <<23, 0>>}
BadTime == <<24, 0>>

\* written episode tokens: an integer and a fraction
EpisodeTokens == {<<"1", "2">>, <<"1", ".", "5">>}

\* written company groups
CompanyTokens == {<<"{", "A", ",", " ", "B", "}">>}

Line(start, end, episode, company) ==
  [start |-> start, end |-> end, episode |-> episode, company |-> company]

\* lines with both times and an episode token written
FullLines ==
  [start : LineTimes,
   end : LineTimes,
   episode : EpisodeTokens,
   company : CompanyTokens \cup {NoTok}]

\* lines with a piece missing, a lone digit as episode, the placeholder
\* episode, or a time past 23:59
OddLines ==
  {Line(<<23, 0>>, NoTok, <<"1", "2">>, NoTok),
   Line(<<23, 0>>, <<2, 10>>, NoTok, NoTok),
   Line(<<23, 0>>, <<2, 10>>, <<"7">>, NoTok),
   Line(<<23, 0>>, <<2, 10>>, <<"-", "-">>, NoTok),
   Line(BadTime, <<2, 10>>, <<"1", "2">>, NoTok),
   Line(<<23, 0>>, BadTime, <<"1", "2">>, NoTok)}

Lines == FullLines \cup OddLines

Companies == {None, Some([names |-> <<<<"A">>>>])}

(***************************************************************************)
(* SimpleDatabase (src/src/database.rs): anime_map is the HashMap from     *)
(* show id to Anime, a function whose domain is the set of keys.           *)
(***************************************************************************)
SimpleDatabase_new == <<>>

Anime_new(id, name) == [id |-> id, name |-> name, watch_entries |-> <<>>]

\* every store operation yields the map it leaves and what it returns
Stored(map, res) == [map |-> map, res |-> res]

\* HashMap::len
MapLen(map) == Cardinality(DOMAIN map)

\* HashMap::insert: a present key has its value replaced
MapInsert(map, key, value) ==
  [k \in (DOMAIN map) \cup {key} |-> IF k = key THEN value ELSE map[k]]

find_anime_by_id(map, anime_id) ==
  IF anime_id \in DOMAIN map THEN Some(map[anime_id]) ELSE None

\* the first show of that name the map's iteration meets
find_anime_by_name(map, name) ==
  IF \E k \in DOMAIN map : map[k].name = name
  THEN Some(map[CHOOSE k \in DOMAIN map : map[k].name = name])
  ELSE None

\* mutant: the name is not looked up first
add_new_anime_NoNameCheck(map, title) ==
  Stored(MapInsert(map, MapLen(map), Anime_new(MapLen(map), title)),
         Ok(MapLen(map)))

\* mutant: the id does not follow the number of shows
add_new_anime_IdZero(map, title) ==
  IF find_anime_by_name(map, title) /= None
  THEN Stored(map, Err("Anime already exists"))
  ELSE Stored(MapInsert(map, 0, Anime_new(0, title)), Ok(0))

add_new_anime(map, title) ==
  IF find_anime_by_name(map, title) /= None
  THEN Stored(map, Err("Anime already exists"))
  ELSE Stored(MapInsert(map, MapLen(map), Anime_new(MapLen(map), title)),
              Ok(MapLen(map)))

\* mutant: an unknown id gets a show made for it
add_watch_entry_Upsert(map, entry) ==
  IF find_anime_by_id(map, entry.anime_id) = None
  THEN Stored(MapInsert(map, entry.anime_id,
                        [Anime_new(entry.anime_id, "")
                           EXCEPT !.watch_entries = <<entry>>]), Ok(<<>>))
  ELSE Stored([map EXCEPT ![entry.anime_id].watch_entries = Append(@, entry)],
              Ok(<<>>))

\* mutant: the entry goes to the front of the list
add_watch_entry_Prepends(map, entry) ==
  IF entry.anime_id >= MapLen(map)
  THEN Stored(map, Err("Anime ID is out of range"))
  ELSE IF find_anime_by_id(map, entry.anime_id) = None
  THEN Stored(map, Err("Anime ID not found"))
  ELSE Stored([map EXCEPT ![entry.anime_id].watch_entries = <<entry>> \o @],
              Ok(<<>>))

add_watch_entry(map, entry) ==
  IF entry.anime_id >= MapLen(map)
  THEN Stored(map, Err("Anime ID is out of range"))
  ELSE IF find_anime_by_id(map, entry.anime_id) = None
  THEN Stored(map, Err("Anime ID not found"))
  ELSE Stored([map EXCEPT ![entry.anime_id].watch_entries = Append(@, entry)],
              Ok(<<>>))

(***************************************************************************)
(* The parse session: the calls a caller makes on one context              *)
(***************************************************************************)
Step(op, arg, pre, res) == [op |-> op, arg |-> arg, pre |-> pre, res |-> res]

Running == last.res.kind /= "Panic"

Init ==
  /\ context = ParsingContext_new
  /\ last = Step("new", <<>>, ParsingContext_new, Ok(<<>>))
  /\ log = <<>>
  /\ anime_map = SimpleDatabase_new

NotifyNewCurrentDate ==
  /\ Running
  /\ \E date \in Dates :
       \E o \in {notify_new_current_date(context, date)} :
          /\ context' = o.ctx
          /\ last' = Step("notify_new_current_date", date, context, o.res)
  /\ UNCHANGED <<log, anime_map>>

NotifyNewCurrentAnime ==
  /\ Running
  /\ \E anime_id \in AnimeIDs :
       \E o \in {notify_new_current_anime(context, anime_id)} :
          /\ context' = o.ctx
          /\ last' = Step("notify_new_current_anime", anime_id, context, o.res)
  /\ UNCHANGED <<log, anime_map>>

NotifyNewCompany ==
  /\ Running
  /\ \E company \in Companies :
       \E o \in {notify_new_company(context, company)} :
          /\ context' = o.ctx
          /\ last' = Step("notify_new_company", company, context, o.res)
  /\ UNCHANGED <<log, anime_map>>

Parse ==
  /\ Running
  /\ \E line \in Lines :
       \E o \in {WatchLineParser_parse(context, line)} :
          /\ IF o.ctx.current_date = None THEN TRUE
             ELSE o.ctx.current_date[1] <= MaxDay
          /\ context' = o.ctx
          /\ last' = Step("parse", line, context, o.res)
  /\ UNCHANGED <<log, anime_map>>

Next ==
  \/ NotifyNewCurrentDate
  \/ NotifyNewCurrentAnime
  \/ NotifyNewCompany
  \/ Parse

Spec == Init /\ [][Next]_vars

(***************************************************************************)
(* The combined midnight scenario (tests::midnight_last_and_traverse):     *)
(* a context built with a date and a show and no previous entry, then the  *)
(* three sessions in order.  `log' starts with the context's date and      *)
(* gains, per parsed line, what the parse returned and the context's date  *)
(* after it.                                                               *)
(***************************************************************************)
ScenarioTimes ==
  <<[start |-> <<23, 0>>, end |-> <<23, 40>>],
    [start |-> <<23, 0>>, end |-> <<2, 10>>],
    [start |-> <<2, 10>>, end |-> <<0, 0>>]>>

ScenarioEpisodes == {<<"1", "2">>, <<"1", "3">>}

Logged(res, date) == [res |-> res, date |-> date]

InitScenario ==
  \E date \in Dates, anime_id \in AnimeIDs, company \in Companies :
    /\ context = [current_date |-> Some(date),
                  current_anime |-> Some(anime_id),
                  last_watch_entry |-> None,
                  last_company |-> company]
    /\ last = Step("new", <<>>, context, Ok(<<>>))
    /\ log = <<Logged(Ok(<<>>), Some(date))>>
    /\ anime_map = SimpleDatabase_new

ScenarioParse ==
  /\ Running
  /\ Len(log) <= Len(ScenarioTimes)
  /\ \E episode \in ScenarioEpisodes, company \in CompanyTokens \cup {NoTok} :
       \E line \in {Line(ScenarioTimes[Len(log)].start,
                         ScenarioTimes[Len(log)].end, episode, company)} :
         \E o \in {WatchLineParser_parse(context, line)} :
           /\ context' = o.ctx
           /\ last' = Step("parse", line, context, o.res)
           /\ log' = Append(log, Logged(o.res, o.ctx.current_date))
           /\ UNCHANGED anime_map

NextScenario == ScenarioParse

SpecScenario == InitScenario /\ [][NextScenario]_vars

(***************************************************************************)
(* The context driven directly: dates, shows and entries handed to         *)
(* notify_new_watch_entry by a caller, without the session recognizer.     *)
(***************************************************************************)
RecordEpisodes == {12, 13}

\* entries a caller may hand over: any show, a fixed hour on day 0
RecordEntries ==
  {WatchEntry_new(anime_id, and_time(0, <<0, 0>>), and_time(0, <<2, 10>>),
                  [number |-> n], None) :
     anime_id \in AnimeIDs, n \in RecordEpisodes}

NotifyNewWatchEntry ==
  /\ Running
  /\ \E entry \in RecordEntries :
       \E o \in {notify_new_watch_entry(context, entry)} :
          /\ context' = o.ctx
          /\ last' = Step("notify_new_watch_entry", entry, context, o.res)
  /\ UNCHANGED <<log, anime_map>>

NextRecord ==
  \/ NotifyNewCurrentDate
  \/ NotifyNewCurrentAnime
  \/ NotifyNewWatchEntry

SpecRecord == Init /\ [][NextRecord]_vars

(***************************************************************************)
(* The store driven by a caller: shows created by title and entries        *)
(* appended, at most MaxCalls calls.  `log' is the sequence of the calls   *)
(* made, each with its argument and what it returned; `last' holds the map *)
(* before the most recent call.                                            *)
(***************************************************************************)
MaxCalls == 5

Titles == {"My Anime 1", "My Anime 2"}

\* entries a caller may append: the ids a store of these titles can issue
\* and ids beyond them
StoreEntries ==
  {WatchEntry_new(anime_id, and_time(0, <<0, 0>>), and_time(0, <<2, 10>>),
                  [number |-> n], None) :
     anime_id \in 0..MaxAnime, n \in RecordEpisodes}

Called(op, arg, res) == [op |-> op, arg |-> arg, res |-> res]

InitDatabase ==
  /\ context = ParsingContext_new
  /\ last = Step("new", <<>>, SimpleDatabase_new, Ok(<<>>))
  /\ log = <<>>
  /\ anime_map = SimpleDatabase_new

AddNewAnime ==
  /\ Len(log) < MaxCalls
  /\ \E title \in Titles :
       \E o \in {add_new_anime(anime_map, title)} :
          /\ anime_map' = o.map
          /\ last' = Step("add_new_anime", title, anime_map, o.res)
          /\ log' = Append(log, Called("add_new_anime", title, o.res))
  /\ UNCHANGED context

AddWatchEntry ==
  /\ Len(log) < MaxCalls
  /\ \E entry \in StoreEntries :
       \E o \in {add_watch_entry(anime_map, entry)} :
          /\ anime_map' = o.map
          /\ last' = Step("add_watch_entry", entry, anime_map, o.res)
          /\ log' = Append(log, Called("add_watch_entry", entry, o.res))
  /\ UNCHANGED context

NextDatabase ==
  \/ AddNewAnime
  \/ AddWatchEntry

SpecDatabase == InitDatabase /\ [][NextDatabase]_vars

(***************************************************************************)
(* An interrupted run: from an empty context a date line, a title line and *)
(* a session, then a title or date line, then a title line or a session,   *)
(* then a session.  `log' is the sequence of the calls made, each with its *)
(* argument, what it returned and the context it left.                     *)
(***************************************************************************)
\* the calls allowed at each place of the run
RunShape ==
  <<{"notify_new_current_date"},
    {"notify_new_current_anime"},
    {"parse"},
    {"notify_new_current_anime", "notify_new_current_date"},
    {"notify_new_current_anime", "parse"},
    {"parse"}>>

\* the session lines of the run: every pair of written times
RunLines == {Line(start, end, <<"1", "2">>, NoTok) : start, end \in LineTimes}

Ran(op, arg, res, ctx) == [op |-> op, arg |-> arg, res |-> res, ctx |-> ctx]

RunAllows(op) ==
  /\ Running
  /\ Len(log) < Len(RunShape)
  /\ op \in RunShape[Len(log) + 1]

RunDate ==
  /\ RunAllows("notify_new_current_date")
  /\ \E date \in Dates :
       \E o \in {notify_new_current_date(context, date)} :
          /\ context' = o.ctx
          /\ last' = Step("notify_new_current_date", date, context, o.res)
          /\ log' = Append(log, Ran("notify_new_current_date", date, o.res, o.ctx))
  /\ UNCHANGED anime_map

RunAnime ==
  /\ RunAllows("notify_new_current_anime")
  /\ \E anime_id \in AnimeIDs :
       \E o \in {notify_new_current_anime(context, anime_id)} :
          /\ context' = o.ctx
          /\ last' = Step("notify_new_current_anime", anime_id, context, o.res)
          /\ log' = Append(log, Ran("notify_new_current_anime", anime_id,
                                    o.res, o.ctx))
  /\ UNCHANGED anime_map

RunParse ==
  /\ RunAllows("parse")
  /\ \E line \in RunLines :
       \E o \in {WatchLineParser_parse(context, line)} :
          /\ IF o.ctx.current_date = None THEN TRUE
             ELSE o.ctx.current_date[1] <= MaxDay
          /\ context' = o.ctx
          /\ last' = Step("parse", line, context, o.res)
          /\ log' = Append(log, Ran("parse", line, o.res, o.ctx))
  /\ UNCHANGED anime_map

NextRun ==
  \/ RunDate
  \/ RunAnime
  \/ RunParse

SpecRun == Init /\ [][NextRun]_vars

(***************************************************************************)
(* The value parsers called on their own: the text is drawn first (`log'   *)
(* holds it), then the parser is applied to it and `last' holds the call.  *)
(***************************************************************************)
\* every text of at most n characters over the given characters
Texts(chars, n) == UNION {[1..k -> chars] : k \in 0..n}

\* episode texts are at most MaxText characters long, or one of EdgeEpisodes
MaxText == 3

EpisodeChars == {"0", "1", "7", "-", "+", ".", "a"}

\* texts at both ends of the range of i32, and just past them
EdgeEpisodes ==
  {<<"2", "1", "4", "7", "4", "8", "3", "6", "4", "7">>,
   <<"2", "1", "4", "7", "4", "8", "3", "6", "4", "8">>,
   <<"+", "2", "1", "4", "7", "4", "8", "3", "6", "4", "7">>,
   <<"-", "2", "1", "4", "7", "4", "8", "3", "6", "4", "8">>,
   <<"-", "2", "1", "4", "7", "4", "8", "3", "6", "4", "9">>,
   <<"0", "0", "2", "1", "4", "7", "4", "8", "3", "6", "4", "7">>,
   <<"0", "0", "0", "0", "0", "0", "0", "0", "0", "0", "7">>,
   <<"9", "9", "9", "9", "9", "9", "9", "9", "9", "9", "9">>}

EpisodeTexts == Texts(EpisodeChars, MaxText) \cup EdgeEpisodes

InitEpisode ==
  /\ context = ParsingContext_new
  /\ anime_map = SimpleDatabase_new
  /\ \E ep_str \in EpisodeTexts :
       /\ log = <<ep_str>>
       /\ last = Step("new", ep_str, <<>>, Ok(<<>>))

EpisodeFrom ==
  /\ last.op = "new"
  /\ last' = Step("Episode_from", log[1], <<>>, Episode_from(log[1]))
  /\ UNCHANGED <<context, log, anime_map>>

NextEpisode == EpisodeFrom

SpecEpisode == InitEpisode /\ [][NextEpisode]_vars

\* the text between the braces of a company text is at most MaxInterior
\* characters long
MaxInterior == 4

CompanyChars == {"A", "B", ",", " ", "{", "}"}

\* texts with and without the pair of braces around them
CompanyTexts ==
  Texts(CompanyChars, MaxInterior)
    \cup {<<"{">> \o inner \o <<"}">> : inner \in Texts(CompanyChars, MaxInterior)}

InitCompany ==
  /\ context = ParsingContext_new
  /\ anime_map = SimpleDatabase_new
  /\ \E company_str \in CompanyTexts :
       /\ log = <<company_str>>
       /\ last = Step("new", company_str, <<>>, Ok(<<>>))

CompanyFromStr ==
  /\ last.op = "new"
  /\ last' = Step("Company_from_str", log[1], <<>>, Company_from_str(log[1]))
  /\ UNCHANGED <<context, log, anime_map>>

NextCompany == CompanyFromStr

SpecCompany == InitCompany /\ [][NextCompany]_vars

\* title lines are at most MaxLine characters long
MaxLine == 5

TitleChars == {"a", ":", " ", "/", "["}

TitleTexts == Texts(TitleChars, MaxLine)

InitTitle ==
  /\ context = ParsingContext_new
  /\ anime_map = SimpleDatabase_new
  /\ \E line \in TitleTexts :
       /\ log = <<line>>
       /\ last = Step("new", line, <<>>, Ok(<<>>))

TitleLineParse ==
  /\ last.op = "new"
  /\ last' = Step("TitleLineParser_parse", log[1], <<>>,
                  TitleLineParser_parse(log[1]))
  /\ UNCHANGED <<context, log, anime_map>>

NextTitle == TitleLineParse

SpecTitle == InitTitle /\ [][NextTitle]_vars

(***************************************************************************)
(* Properties                                                              *)
(*                                                                         *)
(* `last' holds the most recent call: its name, its argument, the context  *)
(* before it and what it returned; `context' is the context after it.      *)
(***************************************************************************)
ParseDone == last.op = "parse"
ParseOk == last.op = "parse" /\ last.res.kind = "Ok"
ParseErr == last.op = "parse" /\ last.res.kind = "Err"

\* the context before the call had both a date and a show
PreReady == last.pre.current_date /= None /\ last.pre.current_anime /= None

\* the written times of the parsed line are times of day
TimesValid ==
  /\ last.arg.end /= NoTok
  /\ last.arg.start[1] <= 23 /\ last.arg.start[2] <= 59
  /\ last.arg.end[1] <= 23 /\ last.arg.end[2] <= 59

Minutes(t) == t[1] * 60 + t[2]

\* rule 1's condition: the previous entry ends later in the day than this
\* session starts
RuleOneApplies ==
  /\ last.pre.last_watch_entry /= None
  /\ Minutes(last.pre.last_watch_entry[1].end_time.time) > Minutes(last.arg.start)

\* rule 2's condition: the session ends earlier in the day than it starts
EndsBeforeStart == Minutes(last.arg.end) < Minutes(last.arg.start)

PreDate == last.pre.current_date[1]
Entry == last.res.val

SameContext(a, b) ==
  /\ a.current_date = b.current_date
  /\ a.current_anime = b.current_anime
  /\ a.last_watch_entry = b.last_watch_entry

\* C1: a session parse that returns an error leaves current_date,
\* current_anime and last_watch_entry as they were before the call.
C1_FailedParseKeepsContext ==
  ParseErr => SameContext(context, last.pre)

\* C2: a session parse leaves current_date unchanged or exactly one day
\* later, and an entry dated by rule 1 is not moved again by rule 2 (its start
\* and end stay on the same day).
C2_AtMostOneDayAdvance ==
  ParseDone /\ PreReady =>
    /\ \/ context.current_date = last.pre.current_date
       \/ context.current_date = Some(PreDate + 1)
    /\ ParseOk /\ RuleOneApplies =>
         Entry.start_time.date = Entry.end_time.date

\* C3: when the previous entry's end time of day is later than the new
\* session's start, a successful parse dates the entry's start and end on
\* current_date + 1 and moves the context to current_date + 1.
C3_RuleOne ==
  ParseOk /\ RuleOneApplies =>
    /\ Entry.start_time.date = PreDate + 1
    /\ Entry.end_time.date = PreDate + 1
    /\ context.current_date = Some(PreDate + 1)

\* the call just made was a successful parse dated by rule 2 alone
RuleTwoParse == ParseOk /\ ~RuleOneApplies /\ EndsBeforeStart

C4_RuleTwoDates ==
  RuleTwoParse =>
    /\ Entry.start_time.date = PreDate
    /\ Entry.end_time.date = PreDate + 1
    /\ context.current_date = Some(PreDate + 1)

\* the next call is a successful parse of a session starting at or after the
\* end time of day of the entry just returned
FollowingSession ==
  /\ RuleTwoParse
  /\ last'.op = "parse"
  /\ last'.res.kind = "Ok"
  /\ Minutes(last'.arg.start) >= Minutes(Entry.end_time.time)

FollowingStaysOnNextDay ==
  /\ last'.res.val.start_time.date = PreDate + 1
  /\ last'.res.val.end_time.date = PreDate + 1
  /\ context'.current_date = Some(PreDate + 1)

\* C4 as claimed: a session dated by rule 2 alone starts on current_date,
\* ends on current_date + 1 and moves the context to current_date + 1, and
\* every following session that starts at or after that end time of day lies
\* entirely on current_date + 1.
C4_Original ==
  /\ [](C4_RuleTwoDates)
  /\ [][FollowingSession => FollowingStaysOnNextDay]_vars

\* C4 as amended: the same, for a following session that does not itself
\* end earlier in the day than it starts.
C4_RuleTwo ==
  /\ [](C4_RuleTwoDates)
  /\ [][FollowingSession /\ Minutes(last'.arg.end) >= Minutes(last'.arg.start)
          => FollowingStaysOnNextDay]_vars

\* a session that follows a midnight-crossing one on the new day
C4_Witness ==
  /\ ParseOk
  /\ last.pre.last_watch_entry /= None
  /\ last.pre.last_watch_entry[1].start_time.date + 1
       = last.pre.last_watch_entry[1].end_time.date
  /\ last.pre.current_date = Some(last.pre.last_watch_entry[1].end_time.date)
  /\ Minutes(last.arg.start) >= Minutes(last.pre.last_watch_entry[1].end_time.time)
  /\ Minutes(last.arg.end) >= Minutes(last.arg.start)
  /\ Entry.start_time.date = PreDate
  /\ Entry.end_time.date = PreDate

\* C5: when the previous entry (if any) ends no later in the day than the
\* session starts and the session ends no earlier than it starts, a successful
\* parse dates start and end on current_date and leaves current_date alone.
C5_RuleThree ==
  ParseOk /\ ~RuleOneApplies /\ ~EndsBeforeStart =>
    /\ Entry.start_time.date = PreDate
    /\ Entry.end_time.date = PreDate
    /\ context.current_date = last.pre.current_date

\* both equalities at once: the previous entry ends when this one starts,
\* and this one ends when it starts
C5_Witness ==
  /\ ParseOk
  /\ last.pre.last_watch_entry /= None
  /\ Minutes(last.pre.last_watch_entry[1].end_time.time) = Minutes(last.arg.start)
  /\ Minutes(last.arg.end) = Minutes(last.arg.start)
  /\ Entry.start_time.date = PreDate

\* C7: a session parse on a context without a date fails with "No current
\* date!", and on one with a date but no show with "No current anime!",
\* whatever the line; so the parse that follows a successful date
\* notification fails for want of a show.
C7_MissingContextFails ==
  ParseDone =>
    /\ last.pre.current_date = None => last.res = Err("No current date!")
    /\ last.pre.current_date /= None /\ last.pre.current_anime = None
         => last.res = Err("No current anime!")

C7_ParseAfterDateFails ==
  /\ last.op = "notify_new_current_date"
  /\ last.res.kind = "Ok"
  /\ last'.op = "parse"
  => last'.res = Err("No current anime!")

C7_WatchNeedsContext ==
  /\ [](C7_MissingContextFails)
  /\ [][C7_ParseAfterDateFails]_vars

\* a well-formed line refused because the date line reset the show
C7_Witness ==
  /\ ParseDone
  /\ last.pre.current_date /= None
  /\ last.pre.current_anime = None
  /\ last.arg \in FullLines
  /\ last.res = Err("No current anime!")

DateNotified == last.op = "notify_new_current_date"

\* C8: notify_new_current_date fails when a current date exists and the new
\* date is earlier than or equal to it, leaving the context as it was; it
\* succeeds when there is no current date or the new date is later.
C8_NonMonotonicDateFails ==
  DateNotified =>
    IF last.pre.current_date /= None /\ last.arg <= last.pre.current_date[1]
    THEN last.res.kind = "Err" /\ SameContext(context, last.pre)
    ELSE last.res.kind = "Ok"

\* the same date again, with a show and a previous entry to lose
C8_Witness ==
  /\ DateNotified
  /\ last.pre.current_date = Some(last.arg)
  /\ last.pre.last_watch_entry /= None
  /\ last.res.kind = "Err"

\* C9: a successful notify_new_current_date sets current_date to the given
\* date and empties current_anime and last_watch_entry.
C9_DateResetsShowAndEntry ==
  DateNotified /\ last.res.kind = "Ok" =>
    /\ context.current_date = Some(last.arg)
    /\ context.current_anime = None
    /\ context.last_watch_entry = None

C9_Witness ==
  /\ DateNotified
  /\ last.res.kind = "Ok"
  /\ last.pre.current_anime /= None
  /\ last.pre.last_watch_entry /= None
  /\ context.current_date = Some(last.arg)

\* C10: notify_new_current_anime succeeds in every context, sets
\* current_anime to the given id, empties last_watch_entry and leaves
\* current_date as it was.
C10_SelectShow ==
  last.op = "notify_new_current_anime" =>
    /\ last.res.kind = "Ok"
    /\ context.current_anime = Some(last.arg)
    /\ context.last_watch_entry = None
    /\ context.current_date = last.pre.current_date

\* the same show selected again while an entry is remembered
C10_Witness ==
  /\ last.op = "notify_new_current_anime"
  /\ last.pre.current_anime = Some(last.arg)
  /\ last.pre.last_watch_entry /= None
  /\ context.last_watch_entry = None

\* the dates of the entry returned by the scenario's n-th session, and the
\* context's date after it, counted from the scenario's first date
ScenarioDates(n) ==
  IF log[n + 1].res.kind = "Ok"
  THEN <<log[n + 1].res.val.start_time.date - log[1].date[1],
         log[n + 1].res.val.end_time.date - log[1].date[1],
         log[n + 1].date[1] - log[1].date[1]>>
  ELSE <<>>

\* C6: from date D with a show and no previous entry, the sessions
\* 23:00-23:40, 23:00-02:10, 02:10-00:00 are dated (D,D), (D,D+1), (D+1,D+2)
\* and leave the context on D, D+1, D+2.
C6_CombinedScenario ==
  Len(log) = 4 =>
    /\ ScenarioDates(1) = <<0, 0, 0>>
    /\ ScenarioDates(2) = <<0, 1, 1>>
    /\ ScenarioDates(3) = <<1, 2, 2>>

\* C11: every entry a successful session parse returns ends no earlier than
\* it starts, as date and time of day.
C11_EndNotBeforeStart ==
  ParseOk =>
    \/ Entry.start_time.date < Entry.end_time.date
    \/ /\ Entry.start_time.date = Entry.end_time.date
       /\ Minutes(Entry.start_time.time) <= Minutes(Entry.end_time.time)

\* a session moved by rule 1 that also ends earlier in the day than it starts
C11_Witness ==
  /\ ParseOk
  /\ RuleOneApplies
  /\ EndsBeforeStart
  /\ Entry.start_time.date < Entry.end_time.date

\* C12: after a successful session parse the context remembers the
\* returned entry, the entry carries the context's show, and the context's
\* date is the date the entry ends on.
C12_ContextMatchesEntry ==
  ParseOk =>
    /\ context.last_watch_entry = Some(Entry)
    /\ context.current_anime = Some(Entry.anime_id)
    /\ context.current_date = Some(Entry.end_time.date)

\* a parse that replaced a remembered entry and moved the date
C12_Witness ==
  /\ ParseOk
  /\ last.pre.last_watch_entry /= None
  /\ last.pre.last_watch_entry /= Some(Entry)
  /\ context.current_date /= last.pre.current_date
  /\ context.last_watch_entry = Some(Entry)

\* C14: once current_date is set, no call makes it absent or earlier.
C14_DateNeverGoesBack ==
  [][context.current_date /= None =>
       /\ context'.current_date /= None
       /\ context'.current_date[1] >= context.current_date[1]]_vars

\* a later date notified while an entry was remembered
C14_Witness ==
  /\ last.pre.current_date /= None
  /\ context.current_date /= None
  /\ context.current_date[1] > last.pre.current_date[1]
  /\ last.op = "notify_new_current_date"
  /\ last.pre.last_watch_entry /= None

\* the episode token is one or more ASCII digits
AllDigits(tok) == tok /= NoTok /\ \A i \in 1..Len(tok) : tok[i] \in Digits

RECURSIVE DigitsNumber(_)
DigitsNumber(tok) ==
  IF tok = <<>> THEN 0
  ELSE 10 * DigitsNumber(SubSeq(tok, 1, Len(tok) - 1))
       + CHOOSE n \in 0..9 : ToString(n) = tok[Len(tok)]

\* C15: with date and show set, a line with two valid times and an episode
\* token of one or more digits is accepted; the entry has the written times
\* of day, the digits' value as episode, and a company exactly when a brace
\* group is written.
C15_SessionLineAccepted ==
  ParseDone /\ PreReady /\ TimesValid /\ AllDigits(last.arg.episode) =>
    /\ last.res.kind = "Ok"
    /\ Entry.start_time.time = last.arg.start
    /\ Entry.end_time.time = last.arg.end
    /\ Entry.episode.number = DigitsNumber(last.arg.episode)
    /\ (Entry.company /= None) <=> (last.arg.company /= NoTok)

\* C13: notify_new_watch_entry with an entry whose show differs from the
\* context's current show is fatal and stores nothing; with the current show
\* it stores the entry as last_watch_entry.
C13_RecordChecksCurrentShow ==
  last.op = "notify_new_watch_entry" =>
    IF last.pre.current_anime = Some(last.arg.anime_id)
    THEN last.res.kind = "Ok" /\ context.last_watch_entry = Some(last.arg)
    ELSE /\ last.res.kind = "Panic"
         /\ context.last_watch_entry = last.pre.last_watch_entry

\* C24: in every state reached by notify_new_current_date,
\* notify_new_current_anime and session parses from an empty context, a
\* remembered last_watch_entry carries the context's current_anime, and no
\* call ends in the "Anime ID mismatch" assertion.
C24_NoAnimeMismatch ==
  /\ context.last_watch_entry /= None
       => context.current_anime = Some(context.last_watch_entry[1].anime_id)
  /\ last.res.kind /= "Panic"

\* a parse that went through the rule-1 branch, whose assertion compared the
\* remembered entry's show with the current one
C24_Witness ==
  /\ ParseOk
  /\ RuleOneApplies
  /\ last.pre.current_anime = Some(last.pre.last_watch_entry[1].anime_id)
  /\ context.last_watch_entry = Some(Entry)

\* the entry the call just made returned is followed at once by another
\* successful session parse
NextParseOk == ParseOk /\ last'.op = "parse" /\ last'.res.kind = "Ok"

C26_ParseKeepsShow ==
  ParseDone => context.current_anime = last.pre.current_anime

\* a parse that moved the date and then failed, with the show still selected
C26_Witness ==
  /\ ParseErr
  /\ last.pre.current_anime /= None
  /\ context.current_date /= last.pre.current_date
  /\ context.current_anime = last.pre.current_anime

\* the k-th call of the run is a successful parse, and the first parse
\* after a successful date or show notification
FirstAfterLine(k) ==
  /\ log[k].op = "parse"
  /\ log[k].res.kind = "Ok"
  /\ \E i \in 1..(k - 1) :
       /\ log[i].op \in {"notify_new_current_anime", "notify_new_current_date"}
       /\ log[i].res.kind = "Ok"
       /\ \A j \in (i + 1)..(k - 1) : log[j].op /= "parse"

\* C27: the first session parsed after a successful notify_new_current_anime
\* or notify_new_current_date is not moved by rule 1: it starts on the
\* context's date, and when its end time of day is not earlier than its
\* start it ends on that date too and the date stays, whatever time of day
\* the last session before that line ended at.
C27_NoCarryAcrossLines ==
  \A k \in 2..Len(log) :
    FirstAfterLine(k) =>
      /\ log[k].res.val.start_time.date = log[k - 1].ctx.current_date[1]
      /\ Minutes(log[k].arg.end) >= Minutes(log[k].arg.start) =>
           /\ log[k].res.val.end_time.date = log[k - 1].ctx.current_date[1]
           /\ log[k].ctx.current_date = log[k - 1].ctx.current_date

\* the same show selected again between a session ending at 23:00 and one
\* starting at 02:10, which stays on the same day
C27_Witness ==
  /\ Len(log) >= 5
  /\ log[3].res.kind = "Ok"
  /\ log[3].arg.end = <<23, 0>>
  /\ log[4].op = "notify_new_current_anime"
  /\ log[4].arg = log[2].arg
  /\ log[5].op = "parse"
  /\ log[5].res.kind = "Ok"
  /\ log[5].arg.start = <<2, 10>>
  /\ log[5].arg.end = <<2, 10>>
  /\ log[5].res.val.start_time.date = log[3].res.val.end_time.date
  /\ log[5].res.val.end_time.date = log[3].res.val.end_time.date

(***************************************************************************)
(* Store properties                                                        *)
(***************************************************************************)
\* the positions in the log of the successful add_new_anime calls
Created == {i \in 1..Len(log) : log[i].op = "add_new_anime" /\ log[i].res.kind = "Ok"}

\* the ids successful add_new_anime calls returned before the latest call
IssuedBefore == {log[i].res.val : i \in Created \ {Len(log)}}

IssuedIds == {log[i].res.val : i \in Created}

\* the store before the latest call held a show of that name
HadName(name) == \E k \in DOMAIN last.pre : last.pre[k].name = name

\* the entries successfully appended under an id, in call order
IsAppendFor(c, id) ==
  c.op = "add_watch_entry" /\ c.res.kind = "Ok" /\ c.arg.anime_id = id

AppendedUnder(id) ==
  LET Test(c) == IsAppendFor(c, id)
      calls == SelectSeq(log, Test)
  IN [i \in 1..Len(calls) |-> calls[i].arg]

\* C16: add_watch_entry with an entry whose anime_id no successful
\* add_new_anime has returned fails, and leaves the whole store as it was.
C16_AppendUnknownFails ==
  last.op = "add_watch_entry" /\ last.arg.anime_id \notin IssuedBefore =>
    last.res.kind = "Err" /\ anime_map = last.pre

\* an unknown id refused by a store that holds a show with an entry
C16_Witness ==
  /\ last.op = "add_watch_entry"
  /\ last.arg.anime_id \notin IssuedBefore
  /\ last.res.kind = "Err"
  /\ \E k \in DOMAIN anime_map : anime_map[k].watch_entries /= <<>>

\* the handle the first successful call for a title returned
FirstHandle(title) ==
  log[CHOOSE i \in Created : log[i].arg = title].res.val

\* C17 as claimed: add_new_anime by a title the store already holds succeeds
\* and returns the handle the first call for that title returned, and adds
\* no second show.
C17_Original ==
  last.op = "add_new_anime" /\ HadName(last.arg) =>
    /\ last.res.kind = "Ok"
    /\ last.res.val = FirstHandle(last.arg)
    /\ anime_map = last.pre

\* C17 as amended: a title is created at most once; a further add_new_anime
\* by it does not succeed, and the handle the first call returned stays the
\* one show of that title, found by its name.
C17_OneShowPerTitle ==
  \A title \in Titles :
    /\ Cardinality({i \in Created : log[i].arg = title}) <= 1
    /\ (\E i \in Created : log[i].arg = title) =>
         /\ Cardinality({k \in DOMAIN anime_map : anime_map[k].name = title}) = 1
         /\ find_anime_by_name(anime_map, title) /= None
         /\ find_anime_by_name(anime_map, title)[1].id = FirstHandle(title)

\* the second title asked for again in a store of two shows
C17_Witness ==
  /\ last.op = "add_new_anime"
  /\ HadName(last.arg)
  /\ last.res.kind = "Err"
  /\ FirstHandle(last.arg) = 1
  /\ MapLen(anime_map) = 2

\* C18: add_new_anime with a name the store already holds returns an error
\* and leaves the store as it was: no id allocated, the show and its entries
\* untouched.
C18_AddExistingFails ==
  last.op = "add_new_anime" /\ HadName(last.arg) =>
    last.res.kind = "Err" /\ anime_map = last.pre

\* a name asked for again whose show already has entries
C18_Witness ==
  /\ last.op = "add_new_anime"
  /\ last.res.kind = "Err"
  /\ \E k \in DOMAIN last.pre :
       last.pre[k].name = last.arg /\ last.pre[k].watch_entries /= <<>>

\* names and ids looked up: the offered ones and one never offered
LookupNames == Titles \cup {"My Anime 3"}
LookupIds == 0..(MaxAnime + 1)

\* C19: the ids successful add_new_anime calls return are pairwise
\* different; find_anime_by_id of each returns the show of the name it was
\* created with, whose id field is that id; ids and names never added are
\* not found.
C19_IdsUniqueAndResolvable ==
  /\ \A i, j \in Created : i /= j => log[i].res.val /= log[j].res.val
  /\ \A i \in Created :
       /\ find_anime_by_id(anime_map, log[i].res.val) /= None
       /\ find_anime_by_id(anime_map, log[i].res.val)[1].name = log[i].arg
       /\ find_anime_by_id(anime_map, log[i].res.val)[1].id = log[i].res.val
  /\ \A id \in LookupIds \ IssuedIds : find_anime_by_id(anime_map, id) = None
  /\ \A name \in LookupNames \ {log[i].arg : i \in Created} :
       find_anime_by_name(anime_map, name) = None

\* two shows created, with appends in between and after
C19_Witness ==
  /\ Cardinality(Created) = 2
  /\ Len(log) = MaxCalls
  /\ log[1].op = "add_new_anime"
  /\ log[Len(log)].op = "add_new_anime"
  /\ log[Len(log)].res.kind = "Ok"
  /\ find_anime_by_id(anime_map, 1) /= None

\* C20: each show's watch_entries is the sequence of the entries
\* successfully appended under its id, in the order of the calls (empty for
\* a show nothing was appended to).
C20_EntriesInCallOrder ==
  \A k \in DOMAIN anime_map : anime_map[k].watch_entries = AppendedUnder(k)

\* show 0 holds episode 13 then 12, show 1 the one entry of the fourth call
C20_Witness ==
  /\ 0 \in DOMAIN anime_map
  /\ 1 \in DOMAIN anime_map
  /\ Len(anime_map[0].watch_entries) = 2
  /\ anime_map[0].watch_entries[1].episode.number = 13
  /\ anime_map[0].watch_entries[2].episode.number = 12
  /\ Len(anime_map[1].watch_entries) = 1
  /\ log[4].op = "add_watch_entry"
  /\ log[4].arg.anime_id = 1

(***************************************************************************)
(* Value parser properties                                                 *)
(***************************************************************************)
\* the text without its sign character, if it starts with one of `signs'
Unsigned(text, signs) ==
  IF text /= <<>> /\ text[1] \in signs THEN Tail(text) ELSE text

\* an optional sign out of `signs', then one or more ASCII digits
SignedDigits(text, signs) == AllDigits(Unsigned(text, signs))

RECURSIVE StripZeros(_)
StripZeros(digits) ==
  IF Len(digits) > 1 /\ digits[1] = "0" THEN StripZeros(Tail(digits))
  ELSE digits

DigitNumber(c) == CHOOSE n \in 0..9 : ToString(n) = c

\* a <= b for two digit texts of the same length
RECURSIVE DigitsLeq(_, _)
DigitsLeq(a, b) ==
  \/ a = <<>>
  \/ DigitNumber(a[1]) < DigitNumber(b[1])
  \/ a[1] = b[1] /\ DigitsLeq(Tail(a), Tail(b))

\* the written number lies in -2^31 .. 2^31 - 1
FitsI32(text) ==
  LET digits == StripZeros(Unsigned(text, {"+", "-"}))
      limit == IF text[1] = "-"
               THEN <<"2", "1", "4", "7", "4", "8", "3", "6", "4", "8">>
               ELSE <<"2", "1", "4", "7", "4", "8", "3", "6", "4", "7">>
  IN \/ Len(digits) < Len(limit)
     \/ Len(digits) = Len(limit) /\ DigitsLeq(digits, limit)

\* minus the number the digits write
RECURSIVE MinusNumber(_)
MinusNumber(digits) ==
  IF digits = <<>> THEN 0
  ELSE 10 * MinusNumber(SubSeq(digits, 1, Len(digits) - 1))
       - DigitNumber(digits[Len(digits)])

WrittenNumber(text) ==
  IF text[1] = "-" THEN MinusNumber(Unsigned(text, {"-"}))
  ELSE 0 - MinusNumber(Unsigned(text, {"+"}))

EpisodeParsed == last.op = "Episode_from"

\* C21 as claimed: Episode::from succeeds exactly on the texts made of an
\* optional leading `-' and one or more ASCII digits, and returns the number
\* they write, leading zeros ignored; every other text fails.
C21_Original ==
  EpisodeParsed =>
    /\ last.res.kind = "Ok" <=> SignedDigits(last.arg, {"-"})
    /\ last.res.kind = "Ok" => last.res.val.number = WrittenNumber(last.arg)

\* C21 as amended: Episode::from succeeds exactly on the texts made of an
\* optional leading `-' or `+' and one or more ASCII digits that write a
\* number from -2147483648 to 2147483647, and returns that number, leading
\* zeros ignored; every other text fails.
C21_EpisodeFrom ==
  EpisodeParsed =>
    /\ last.res.kind = "Ok"
         <=> SignedDigits(last.arg, {"+", "-"}) /\ FitsI32(last.arg)
    /\ last.res.kind = "Ok" => last.res.val.number = WrittenNumber(last.arg)

\* a minus sign and a leading zero
C21_Witness ==
  /\ EpisodeParsed
  /\ last.arg = <<"-", "0", "7">>
  /\ last.res = Ok([number |-> 0 - 7])

\* the text is wrapped in `{' ... `}'
BraceWrapped(text) ==
  Len(text) >= 2 /\ text[1] = "{" /\ text[Len(text)] = "}"

\* the position of the first comma at or after `from', or one past the end
NextComma(text, from) ==
  IF \E i \in from..Len(text) : text[i] = ","
  THEN CHOOSE i \in from..Len(text) :
         text[i] = "," /\ \A j \in from..(i - 1) : text[j] /= ","
  ELSE Len(text) + 1

\* the text without the white space around it
Stripped(text) ==
  LET inked == {i \in 1..Len(text) : text[i] \notin {" ", "\t", "\n"}}
  IN IF inked = {} THEN <<>>
     ELSE SubSeq(text, CHOOSE i \in inked : \A j \in inked : i <= j,
                       CHOOSE i \in inked : \A j \in inked : i >= j)

\* the pieces between the commas from `from' on, each stripped, the empty
\* ones left out
RECURSIVE StrippedPieces(_, _)
StrippedPieces(text, from) ==
  LET to == NextComma(text, from)
      piece == Stripped(SubSeq(text, from, to - 1))
      rest == IF to > Len(text) THEN <<>> ELSE StrippedPieces(text, to + 1)
  IN IF piece = <<>> THEN rest ELSE <<piece>> \o rest

CompanyParsed == last.op = "Company_from_str"

\* C22: Company::from_str of a brace-wrapped text returns the pieces of the
\* interior between the commas, each trimmed of surrounding white space, the
\* ones empty after trimming dropped, in order with duplicates kept; a text
\* that is not brace-wrapped fails.
C22_CompanyFromStr ==
  CompanyParsed =>
    IF BraceWrapped(last.arg)
    THEN last.res =
           Ok([names |->
                 StrippedPieces(SubSeq(last.arg, 2, Len(last.arg) - 1), 1)])
    ELSE last.res.kind = "Err"

\* white space, then nothing or `//' and a comment
BlankOrComment(rest) ==
  LET inked == {i \in 1..Len(rest) : rest[i] \notin {" ", "\t", "\n"}}
  IN \/ inked = {}
     \/ \E i \in inked :
          /\ \A j \in inked : i <= j
          /\ i + 1 \in inked
          /\ rest[i] = "/"
          /\ rest[i + 1] = "/"

\* the colons that split the line into a title (alphanumeric first
\* character, no bracket or brace), the colon, and nothing or a comment
TitleColons(line) ==
  {p \in 2..Len(line) :
     /\ line[p] = ":"
     /\ line[1] \in Digits \cup {"a", "b", "A", "B"}
     /\ \A i \in 1..(p - 1) : line[i] \notin {"[", "]", "{", "}"}
     /\ BlankOrComment(SubSeq(line, p + 1, Len(line)))}

TitleParsed == last.op = "TitleLineParser_parse"

\* C23: for every line made of a title (alphanumeric first character, no
\* bracket or brace, colons allowed), a colon and an optional `//' comment,
\* TitleLineParser.parse returns the trimmed title without the colon, so
\* that result + ":" is the line when there is no comment; a line without
\* such a trailing colon is rejected.
C23_TitleRoundTrip ==
  TitleParsed =>
    /\ \A p \in TitleColons(last.arg) :
         /\ last.res = Ok(Stripped(SubSeq(last.arg, 1, p - 1)))
         /\ p = Len(last.arg) /\ last.arg[p - 1] \notin {" ", "\t", "\n"}
              => last.res.val \o <<":">> = last.arg
    /\ (\A p \in 1..Len(last.arg) :
          last.arg[p] = ":"
            => ~BlankOrComment(SubSeq(last.arg, p + 1, Len(last.arg))))
         => last.res.kind = "Err"

====
